---- MODULE Spec2Model ----
(***************************************************************************)
(* A state-machine model of AssembledTransaction                           *)
(* (src/src/contract/assembled_transaction.ts): the lifecycle of one       *)
(* contract invocation (build, simulate, restore, signAuthEntries, sign,   *)
(* send) and its JSON hand-off between parties.                            *)
(***************************************************************************)
EXTENDS Integers, Sequences, FiniteSets, TLC

\* ------------------------------------------------------------------ bounds
\* Longest list of authorization entries a simulation reports.
MaxAuth == 2
\* Most footprint restores the ledger accepts in one behaviour.
MaxRestores == 2
\* Longest error text (in tokens) a server or a result decoder produces.
MaxText == 4

\* ------------------------------------------------------------- basic values
\* `undefined` in the source.
None == [none |-> TRUE]

\* Public identities, as strings of characters: two accounts and a contract.
GA == <<"G", "A">>
GB == <<"G", "B">>
CC == <<"C", "C">>
NoAddr == <<>>
Accounts == {GA, GB}

\* id.startsWith('C')
StartsWithC(id) == Len(id) > 0 /\ Head(id) = "C"

\* An authorization entry with source-account credentials (no address, no
\* signature slot) and one with address credentials for `a`, not yet signed.
SourceEntry ==
  [cred |-> "sourceAccount", address |-> NoAddr, signature |-> 0, expiration |-> 0]
AddressEntry(a) ==
  [cred |-> "address", address |-> a, signature |-> 0, expiration |-> 0]

\* Entries a recording-mode simulation reports for the invoked method.
SimEntries == {SourceEntry, AddressEntry(GB), AddressEntry(CC)}

\* Ledger numbers a caller asks the signed entries to expire at.
Expirations == {1}

SeqsUpTo(S, n) == UNION {[1..k -> S] : k \in 0..n}

\* Return values (ScVal); 0 is scvVoid.
ScvVoid == 0
RetVals == {1, 2}

\* ------------------------------------------------------------------- codec
\* XDR encoding and decoding, as sequences of numbers.
AddrTable == <<GA, GB, CC>>
AddrCode(a) == IF a = NoAddr THEN 0 ELSE CHOOSE i \in 1..Len(AddrTable) : AddrTable[i] = a
AddrOf(c) == IF c = 0 THEN NoAddr ELSE AddrTable[c]

EntryToXDR(e) ==
  << (IF e.cred = "sourceAccount" THEN 0 ELSE 1), AddrCode(e.address),
     e.signature, e.expiration >>
EntryFromXDR(s) ==
  [cred |-> IF s[1] = 0 THEN "sourceAccount" ELSE "address",
   address |-> AddrOf(s[2]), signature |-> s[3], expiration |-> s[4]]

RECURSIVE Flatten(_)
Flatten(ss) == IF ss = <<>> THEN <<>> ELSE Head(ss) \o Flatten(Tail(ss))

RECURSIVE Chunks(_, _)
Chunks(s, n) ==
  IF n = 0 THEN <<>>
  ELSE <<SubSeq(s, 1, 4)>> \o Chunks(SubSeq(s, 5, Len(s)), n - 1)

\* auth.map(a => a.toXDR()) and auth.map(a => fromXDR(a))
EntriesToXDR(s) == [i \in 1..Len(s) |-> EntryToXDR(s[i])]
EntriesFromXDR(s) == [i \in 1..Len(s) |-> EntryFromXDR(s[i])]

\* SorobanTransactionData: the read-write footprint length is what the class reads.
DataToXDR(d) == <<d.rw>>
DataFromXDR(s) == [rw |-> s[1]]

ScValToXDR(v) == <<v>>
ScValFromXDR(s) == s[1]

OpCode(op) == IF op = "invoke" THEN 0 ELSE 1
OpOf(c) == IF c = 0 THEN "invoke" ELSE "restore"

\* Transaction.toXDR() / TransactionBuilder.fromXDR()
TxToXDR(t) ==
  << AddrCode(t.source), t.seq, t.memo, OpCode(t.op), t.tb, t.sigs,
     (IF t.data = None THEN 0 ELSE 1), (IF t.data = None THEN 0 ELSE t.data.rw),
     Len(t.auth) >> \o Flatten(EntriesToXDR(t.auth))
TxFromXDR(s) ==
  [source |-> AddrOf(s[1]), seq |-> s[2], memo |-> s[3], op |-> OpOf(s[4]),
   tb |-> s[5], sigs |-> s[6],
   data |-> IF s[7] = 0 THEN None ELSE [rw |-> s[8]],
   auth |-> EntriesFromXDR(Chunks(SubSeq(s, 10, Len(s)), s[9]))]

\* --------------------------------------------------- simulation responses
\* Api.SimulateTransactionResponse, by shape.  A restore-required response is
\* success-shaped and carries a restorePreamble.
ErrorResponse ==
  [kind |-> "error", hasResult |-> FALSE, auth |-> <<>>, retval |-> ScvVoid,
   data |-> None, error |-> <<>>]
\* An error response whose `error` string is `text`.
ErrorResponseOf(text) == [ErrorResponse EXCEPT !.error = text]
SuccessResponse(auth, retval, rw) ==
  [kind |-> "success", hasResult |-> TRUE, auth |-> auth, retval |-> retval,
   data |-> [rw |-> rw]]
RestoreResponse(auth, retval, rw) ==
  [kind |-> "restore", hasResult |-> TRUE, auth |-> auth, retval |-> retval,
   data |-> [rw |-> rw]]
\* The simulation of a restoreFootprint operation has no host-function result.
NoResultResponse(kind) ==
  [kind |-> kind, hasResult |-> FALSE, auth |-> <<>>, retval |-> ScvVoid,
   data |-> [rw |-> 1]]

isSimulationError(sim) == sim.kind = "error"
isSimulationRestore(sim) == sim.kind = "restore"
isSimulationSuccess(sim) == sim.kind \in {"success", "restore"}

\* ------------------------------------------------------------ the instance
\* new AssembledTransaction(options): every optional field starts undefined.
NewInstance(options) ==
  [options |-> options, raw |-> None, built |-> None, simulation |-> None,
   simulationResult |-> None, simulationTransactionData |-> None,
   signed |-> None]

\* new TransactionBuilder(account, ...).addOperation(...).setTimeout(...)
NewRaw(seq, op, data) == [seq |-> seq, memo |-> 0, op |-> op, data |-> data]

\* raw.build()
RawBuild(t) ==
  [source |-> t.options.publicKey, seq |-> t.raw.seq, memo |-> t.raw.memo,
   op |-> t.raw.op, auth |-> <<>>, data |-> t.raw.data, tb |-> 0, sigs |-> 0]

\* assembleTransaction(built, simulation).build(): the simulation's resource
\* data, and its authorization entries unless the operation already has some.
AssembleTransaction(built, sim) ==
  [built EXCEPT
     !.data = sim.data,
     !.auth = IF built.op = "invoke" /\ Len(built.auth) = 0 /\ sim.hasResult
              THEN sim.auth ELSE built.auth]

\* get simulationData: the outcome, the value returned and the instance after
\* the access (the getter memoizes into the two cache fields).
SimulationDataCached(t) ==
  t.simulationResult # None /\ t.simulationTransactionData # None

\* A getter that takes a restore-required response for a usable one.
SimulationDataErrNoExpiry(t) ==
  IF SimulationDataCached(t) THEN "ok"
  ELSE IF t.simulation = None THEN "NotYetSimulated"
  ELSE IF isSimulationError(t.simulation) THEN "SimulationFailed"
  ELSE "ok"

SimulationDataErr(t) ==
  IF SimulationDataCached(t) THEN "ok"
  ELSE IF t.simulation = None THEN "NotYetSimulated"
  ELSE IF isSimulationError(t.simulation) THEN "SimulationFailed"
  ELSE IF isSimulationRestore(t.simulation) THEN "ExpiredState"
  ELSE "ok"

DeriveResult(sim) ==
  IF sim.hasResult THEN [auth |-> sim.auth, retval |-> sim.retval]
  ELSE [auth |-> <<>>, retval |-> ScvVoid]

\* A getter that loses the return value when it answers from its cache.
SimulationDataAfterCorrupt(t) ==
  IF SimulationDataCached(t)
  THEN [t EXCEPT !.simulationResult = [auth |-> t.simulationResult.auth,
                                       retval |-> ScvVoid]]
  ELSE IF SimulationDataErr(t) # "ok" THEN t
  ELSE [t EXCEPT !.simulationResult = DeriveResult(t.simulation),
                 !.simulationTransactionData = t.simulation.data]

SimulationDataAfter(t) ==
  IF SimulationDataCached(t) \/ SimulationDataErr(t) # "ok" THEN t
  ELSE [t EXCEPT !.simulationResult = DeriveResult(t.simulation),
                 !.simulationTransactionData = t.simulation.data]

SimulationDataVal(t) ==
  [result |-> SimulationDataAfter(t).simulationResult,
   transactionData |-> SimulationDataAfter(t).simulationTransactionData]

\* A getter for which every call writes.
NeverReadCall(t) == FALSE

\* A getter that answers from the raw response only, and takes a call that
\* carries none for a writing one.
isReadCallOfRaw(t) ==
  /\ t.simulation # None
  /\ Len(SimulationDataVal(t).result.auth) = 0
  /\ SimulationDataVal(t).transactionData.rw = 0

\* What an access to simulationData gives: the failure, or the value.
SimulationDataRead(t) ==
  [err |-> SimulationDataErr(t),
   val |-> IF SimulationDataErr(t) = "ok" THEN SimulationDataVal(t) ELSE None]

\* get isReadCall (defined when simulationData is readable)
isReadCall(t) ==
  /\ Len(SimulationDataVal(t).result.auth) = 0
  /\ SimulationDataVal(t).transactionData.rw = 0

\* A list that keeps an address once per entry.
NoDedup(s, seen) == s

\* ------------------------------------------------------------------ result
\* Texts are sequences of tokens: the literal "Error(Contract, #", decimal
\* digits, ")" and anything else.
ContractPrefix == "Error(Contract, #"
Digits == <<"0", "1", "2", "3", "4", "5", "6", "7", "8", "9">>
IsDigit(c) == \E d \in 1..Len(Digits) : Digits[d] = c
DigitVal(c) == (CHOOSE d \in 1..Len(Digits) : Digits[d] = c) - 1

\* Tokens of the texts the checks draw from.
TextTokens == {ContractPrefix, "0", "1", ")"}
Texts == SeqsUpTo(TextTokens, MaxText)

\* Length of the run of digits of `text` that starts at position i.
RECURSIVE DigitRun(_, _)
DigitRun(text, i) ==
  IF i > Len(text) \/ ~IsDigit(text[i]) THEN 0 ELSE 1 + DigitRun(text, i + 1)

\* errorMessage.match(/Error\(Contract, #(\d+)\)/): the positions at which the
\* pattern matches, and the digits captured by the leftmost match (the empty
\* sequence when there is none).
MatchesAt(text, i) ==
  /\ text[i] = ContractPrefix
  /\ DigitRun(text, i + 1) >= 1
  /\ i + DigitRun(text, i + 1) + 1 <= Len(text)
  /\ text[i + DigitRun(text, i + 1) + 1] = ")"

ContractErrorMatch(text) ==
  LET at == {i \in 1..Len(text) : MatchesAt(text, i)}
      first == CHOOSE i \in at : \A j \in at : i <= j
  IN IF at = {} THEN <<>>
     ELSE SubSeq(text, first + 1, first + DigitRun(text, first + 1))

\* parseInt(digits, 10)
RECURSIVE ParseInt(_)
ParseInt(ds) ==
  IF ds = <<>> THEN 0
  ELSE 10 * ParseInt(SubSeq(ds, 1, Len(ds) - 1)) + DigitVal(ds[Len(ds)])

\* Values a `try` block can throw: an Error with a message, or a value that
\* has no toString (implementsToString is false for it).
ErrorOf(name, message) == [name |-> name, hasToString |-> TRUE, message |-> message]
NoToString == [name |-> "thrown", hasToString |-> FALSE, message |-> <<>>]
implementsToString(e) == e.hasToString
\* Error.prototype.toString(): "Error: " followed by the message.
toString(e) == <<"Error: ">> \o e.message

\* The failure the simulationData getter throws.
SimulationDataFailure(t) ==
  IF SimulationDataErr(t) = "SimulationFailed"
  THEN ErrorOf("SimulationFailed",
               <<"Transaction simulation failed: ">> \o t.simulation.error)
  ELSE ErrorOf(SimulationDataErr(t), <<SimulationDataErr(t)>>)

\* new Err(err)
Err(err) == [err |-> err]

\* A parseError that makes an Err of any code the text carries.
parseErrorAnyCode(options, errorMessage) ==
  LET match == ContractErrorMatch(errorMessage)
      i == ParseInt(match)
  IN IF options.errorTypes = None THEN None
     ELSE IF match = <<>> THEN None
     ELSE Err(IF i \in DOMAIN options.errorTypes.table
              THEN options.errorTypes.table[i] ELSE "unknown")

\* parseError(errorMessage): None for `undefined`.
parseError(options, errorMessage) ==
  LET match == ContractErrorMatch(errorMessage)
      i == ParseInt(match)
  IN IF options.errorTypes = None THEN None
     ELSE IF match = <<>> THEN None
     ELSE IF i \notin DOMAIN options.errorTypes.table THEN None
     ELSE Err(options.errorTypes.table[i])

\* What options.parseResultXdr does with the return value: it returns the
\* native value, or throws.
Returns == [throws |-> FALSE]
Throws(e) == [throws |-> TRUE, failure |-> e]
Native(retval) == [native |-> retval]

\* What the `try` block of get result throws; None when it returns.
ResultFailure(t, decoder) ==
  IF SimulationDataErr(t) # "ok" THEN SimulationDataFailure(t)
  ELSE IF decoder.throws THEN decoder.failure
  ELSE None

\* get result: a value returned, an Err returned, or the failure rethrown.
getResult(t, decoder) ==
  LET e == ResultFailure(t, decoder)
      err == parseError(t.options, toString(e))
  IN IF e = None
     THEN [kind |-> "value", val |-> Native(SimulationDataVal(t).result.retval)]
     ELSE IF ~implementsToString(e) THEN [kind |-> "throw", failure |-> e]
     ELSE IF err # None THEN [kind |-> "Err", val |-> err]
     ELSE [kind |-> "throw", failure |-> e]

\* needsNonInvokerSigningBy({includeAlreadySigned}) on a built transaction:
\* the addresses of the filtered entries, in order, duplicates removed.
RECURSIVE Dedup(_, _)
Dedup(s, seen) ==
  IF s = <<>> THEN <<>>
  ELSE IF Head(s) \in seen THEN Dedup(Tail(s), seen)
  ELSE <<Head(s)>> \o Dedup(Tail(s), seen \cup {Head(s)})

\* A filter that forgets the credential type.
AnyEntry(entry, includeAlreadySigned) ==
  includeAlreadySigned \/ entry.signature = 0

\* A filter that takes includeAlreadySigned for "only the signed ones".
OnlySignedEntry(entry, includeAlreadySigned) ==
  /\ entry.cred = "address"
  /\ (IF includeAlreadySigned THEN entry.signature # 0 ELSE entry.signature = 0)

NeedsEntry(entry, includeAlreadySigned) ==
  /\ entry.cred = "address"
  /\ (includeAlreadySigned \/ entry.signature = 0)

needsNonInvokerSigningBy(t, includeAlreadySigned) ==
  LET kept == SelectSeq(t.built.auth,
                        LAMBDA e : NeedsEntry(e, includeAlreadySigned))
  IN Dedup([i \in 1..Len(kept) |-> kept[i].address], {})

Range(s) == {s[i] : i \in 1..Len(s)}

\* toJSON(): the blob, every field in its wire encoding.
NoXDR == <<>>
toJSON(t) ==
  [tx |-> IF t.built = None THEN NoXDR ELSE TxToXDR(t.built),
   simulationResult |->
     [auth |-> EntriesToXDR(SimulationDataVal(t).result.auth),
      retval |-> ScValToXDR(SimulationDataVal(t).result.retval)],
   simulationTransactionData |-> DataToXDR(SimulationDataVal(t).transactionData)]

\* A reconstruction that keeps the envelope only, as fromXDR does.
fromEnvelope(options, json) ==
  [NewInstance(options) EXCEPT !.built = TxFromXDR(json.tx)]

\* fromJSON(options, blob)
fromJSON(options, json) ==
  [NewInstance(options) EXCEPT
     !.built = TxFromXDR(json.tx),
     !.simulationResult =
        [auth |-> EntriesFromXDR(json.simulationResult.auth),
         retval |-> ScValFromXDR(json.simulationResult.retval)],
     !.simulationTransactionData = DataFromXDR(json.simulationTransactionData)]

\* ------------------------------------------------------------------- state
VARIABLES
  tx,            \* the AssembledTransaction in hand, None before build
  restoreTx,     \* the restore transaction of a restoreFootprint in progress
  pc,            \* where the operation in progress is suspended; "idle" if none
  simRestore,    \* `restore` of the simulate call in progress
  account,       \* sequence number of the Account fetched for a restore
  call,          \* the lifecycle operation last called and its arguments
  ret,           \* last lifecycle operation completed and its outcome
  got,           \* what the access to simulationData just made produced
  ans,           \* what the query just made (a getter or a pure method) returned
  blob,          \* the JSON blob in transit between two parties
  sent,          \* the envelope last handed to the submission collaborator
  ledgerSeq,     \* the submitter's sequence number on the ledger
  contractAuth,  \* authorization entries the invoked method requires
  contractRw,    \* length of the invoked method's read-write footprint
  restores,      \* restore transactions submitted by the simulate call in progress
  flow           \* stage of the multi-party signing workflow the call is in

vars ==
  << tx, restoreTx, pc, simRestore, account, call, ret, got, ans, blob, sent,
     ledgerSeq, contractAuth, contractRw, restores, flow >>

env == << contractAuth, contractRw >>

\* An address-credentialed entry consumes a nonce, so the footprint of a
\* method that requires one is never read-only.
ContractRws(auth) ==
  IF \E i \in 1..Len(auth) : auth[i].cred = "address" THEN {1} ELSE {0, 1}

Done(op, err) == [op |-> op, err |-> err]
NoCall == [op |-> "none"]

Init ==
  /\ tx = None
  /\ restoreTx = None
  /\ pc = "none"
  /\ simRestore = FALSE
  /\ account = 0
  /\ call = NoCall
  /\ ret = Done("none", "ok")
  /\ got = None
  /\ ans = None
  /\ blob = None
  /\ sent = None
  /\ ledgerSeq = 0
  /\ contractAuth \in SeqsUpTo(SimEntries, MaxAuth)
  /\ contractRw \in ContractRws(contractAuth)
  /\ restores = 0
  /\ flow = 0

\* Options a caller may construct an instance with.
Networks == {"Test SDF Network", "Public Global Stellar Network"}
Testnet == "Test SDF Network"

OptionsOn(keys, restoreFlags, networks) ==
  [publicKey : keys, restore : restoreFlags, signTransaction : BOOLEAN,
   networkPassphrase : networks]

Options(keys, restoreFlags) == OptionsOn(keys, restoreFlags, {Testnet})

\* simulate, up to its first await: finalize the draft if nothing is built
\* yet, drop the cached simulation data, issue the request.
SimulateEnterErr(t) ==
  IF t.built = None /\ t.raw = None THEN "NotYetAssembled" ELSE "ok"

\* A simulate that sends `built` as it is, without finalizing the draft.
SimulateBuiltAsIs(t) == t.built

\* simulate: `if (!this.built) { ... this.built = this.raw.build(); }`
SimulateBuilt(t) == IF t.built = None THEN RawBuild(t) ELSE t.built

SimulateEnter(t) ==
  [t EXCEPT !.built = SimulateBuilt(t),
            !.simulationResult = None,
            !.simulationTransactionData = None]

\* `restore ?? this.options.restore`; the argument is None when not given.
EffectiveRestore(t, restore) ==
  IF restore = None THEN t.options.restore ELSE restore.value

RestoreArgs == {None, [value |-> TRUE], [value |-> FALSE]}

\* A constructor that accepts any options.
KeyNeverMissing(options) == FALSE

\* `!options.publicKey`, the test build and the constructor make.
MissingKey(options) == options.publicKey = NoAddr

\* AssembledTransaction.build(options), up to the await of getAccount: the
\* test of the public key, then the constructor.
Build(options, simulate) ==
  /\ pc = "none"
  /\ call' = [op |-> "build", restore |-> options.restore,
              options |-> options, simulate |-> simulate]
  /\ IF MissingKey(options)
     THEN /\ ret' = Done("build", "MissingPublicKey")
          /\ pc' = "returned"
     ELSE /\ pc' = "build_account"
          /\ ret' = ret
  /\ got' = None
  /\ ans' = None
  /\ flow' = 0
  /\ UNCHANGED << tx, restoreTx, simRestore, account, blob, sent, ledgerSeq, env, restores >>

\* build, from the answer of getAccount: create the draft, simulate unless
\* options.simulate is false.
BuildAccount(ok) ==
  /\ pc = "build_account"
  /\ IF ~ok
     THEN /\ ret' = Done("build", "Rejected")
          /\ pc' = "returned"
          /\ UNCHANGED << tx, simRestore >>
     ELSE LET t == [NewInstance(call.options) EXCEPT
                      !.raw = NewRaw(ledgerSeq + 1, "invoke", None)]
          IN IF call.simulate
             THEN /\ tx' = SimulateEnter(t)
                  /\ simRestore' = EffectiveRestore(t, None)
                  /\ pc' = "sim_wait"
                  /\ ret' = ret
             ELSE /\ tx' = t
                  /\ pc' = "returned"
                  /\ ret' = Done("build", "ok")
                  /\ UNCHANGED << simRestore >>
  /\ got' = None
  /\ ans' = None
  /\ flow' = 0
  /\ UNCHANGED << restoreTx, account, call, blob, sent, ledgerSeq, env, restores >>

\* tx.simulate({restore}) called by the holder of the instance.
Simulate(restore) ==
  /\ pc = "idle"
  /\ call' = [op |-> "simulate", restore |-> EffectiveRestore(tx, restore),
              before |-> SimulationDataRead(tx),
              built |-> IF SimulateEnterErr(tx) = "ok"
                        THEN SimulateBuilt(tx) ELSE None]
  /\ IF SimulateEnterErr(tx) # "ok"
     THEN /\ ret' = Done("simulate", SimulateEnterErr(tx))
          /\ pc' = "returned"
          /\ UNCHANGED << tx, simRestore >>
     ELSE /\ tx' = SimulateEnter(tx)
          /\ simRestore' = EffectiveRestore(tx, restore)
          /\ pc' = "sim_wait"
          /\ ret' = ret
  /\ got' = None
  /\ ans' = None
  /\ flow' = 0
  /\ UNCHANGED << restoreTx, account, blob, sent, ledgerSeq, env, restores >>

\* What server.simulateTransaction can answer for the invoked method; the
\* ledger asks for a restore at most MaxRestores times.
Reject == [kind |-> "reject"]
MainResponses ==
  {Reject, ErrorResponse}
  \cup {SuccessResponse(contractAuth, r, contractRw) : r \in RetVals}
  \cup (IF ledgerSeq < MaxRestores
        THEN {RestoreResponse(contractAuth, 1, contractRw)} ELSE {})

\* simulate, from the answer of server.simulateTransaction to its return or
\* to its next await (getAccount, when a restore is due).
SimulateResponse(resp) ==
  /\ pc = "sim_wait"
  /\ IF resp = Reject
     THEN /\ ret' = Done("simulate", "Rejected")
          /\ pc' = "returned"
          /\ tx' = tx
     ELSE IF simRestore /\ isSimulationRestore(resp)
     THEN /\ tx' = [tx EXCEPT !.simulation = resp]
          /\ pc' = "restore_account"
          /\ ret' = ret
     ELSE /\ tx' = [tx EXCEPT
                      !.simulation = resp,
                      !.built = IF isSimulationSuccess(resp)
                                THEN AssembleTransaction(tx.built, resp)
                                ELSE tx.built]
          /\ pc' = "returned"
          /\ ret' = Done("simulate", "ok")
  /\ got' = None
  /\ ans' = None
  /\ flow' = 0
  /\ UNCHANGED << restoreTx, simRestore, account, call, blob, sent, ledgerSeq, env, restores >>

\* ------------------------------------------------------------------- sign
\* The signers needed, contracts included.
AllNeeded(t) == needsNonInvokerSigningBy(t, FALSE)

\* this.needsNonInvokerSigningBy().filter(id => !id.startsWith('C'))
SigsNeeded(t) ==
  SelectSeq(needsNonInvokerSigningBy(t, FALSE), LAMBDA id : ~StartsWithC(id))

\* Checks in the order: built, read call, signatures needed, signer.
SignErrSignaturesFirst(t, force, signer) ==
  IF t.built = None THEN "NotBuilt"
  ELSE IF ~force /\ SimulationDataErr(t) # "ok" THEN SimulationDataErr(t)
  ELSE IF ~force /\ isReadCall(t) THEN "NoSignatureNeeded"
  ELSE IF Len(SigsNeeded(t)) > 0 THEN "NeedsMoreSignatures"
  ELSE IF ~signer THEN "NoSigner"
  ELSE IF SimulationDataErr(t) # "ok" THEN SimulationDataErr(t)
  ELSE "ok"

\* sign, up to the await of the signTransaction callback.  `signer` says
\* whether a signTransaction callback is available (argument or option).
SignErr(t, force, signer) ==
  IF t.built = None THEN "NotBuilt"
  ELSE IF ~force /\ SimulationDataErr(t) # "ok" THEN SimulationDataErr(t)
  ELSE IF ~force /\ isReadCall(t) THEN "NoSignatureNeeded"
  ELSE IF ~signer THEN "NoSigner"
  ELSE IF Len(SigsNeeded(t)) > 0 THEN "NeedsMoreSignatures"
  ELSE IF SimulationDataErr(t) # "ok" THEN SimulationDataErr(t)
  ELSE "ok"

\* A send that hands over whatever `signed` holds.
SendErrNone(t) == "ok"

\* send(): the test of `signed`.
SendErr(t) == IF t.signed = None THEN "NotSigned" ELSE "ok"

\* A sign that hands `built` to the callback as it is.
KeepBuilt(t) == t.built

\* TransactionBuilder.cloneFrom(built, {timebounds: undefined, sorobanData})
\*   .setTimeout(timeoutInSeconds).build()
Refinalize(t) ==
  [t.built EXCEPT !.tb = 1, !.sigs = 0,
                  !.data = SimulationDataVal(t).transactionData]

\* The instance when sign suspends or fails: simulationData memoizes when the
\* read-call check reads it, and `built` is re-finalized when every check passed.
SignEnter(t, force, signer) ==
  IF SignErr(t, force, signer) = "ok"
  THEN [SimulationDataAfter(t) EXCEPT !.built = Refinalize(t)]
  ELSE IF t.built # None /\ ~force THEN SimulationDataAfter(t)
  ELSE t

\* What an honest signTransaction callback returns for `built.toXDR()`, decoded
\* by TransactionBuilder.fromXDR.
SignedFrom(xdr) == [TxFromXDR(xdr) EXCEPT !.sigs = 1]

\* --------------------------------------------------------- footprint restore
\* simulate, after getAccount: restoreFootprint checks for a signTransaction
\* option, then buildFootprintRestoreTransaction constructs the restore
\* transaction and simulates it with restore: false.
RestoreAccount(ok) ==
  /\ pc = "restore_account"
  /\ IF ~ok
     THEN /\ ret' = Done("simulate", "Rejected")
          /\ pc' = "returned"
          /\ UNCHANGED << restoreTx, account >>
     ELSE IF ~tx.options.signTransaction
     THEN /\ ret' = Done("simulate", "NoSigner")
          /\ pc' = "returned"
          /\ account' = ledgerSeq
          /\ restoreTx' = restoreTx
     ELSE /\ account' = ledgerSeq
          /\ restoreTx' =
               SimulateEnter([NewInstance(tx.options) EXCEPT
                  !.raw = NewRaw(ledgerSeq + 1, "restore", tx.simulation.data)])
          /\ pc' = "restore_sim"
          /\ ret' = ret
  /\ got' = None
  /\ ans' = None
  /\ flow' = 0
  /\ UNCHANGED << tx, simRestore, call, blob, sent, ledgerSeq, env, restores >>

\* A restore transaction simulated with the `restore` of its options, as
\* simulate does when no argument is passed.
RestoreOfOptions(options) == options.restore

\* buildFootprintRestoreTransaction: tx.simulate({ restore: false }).
RestoreTxRestore(options) == FALSE

RestoreResponses ==
  {Reject, ErrorResponse, NoResultResponse("success"), NoResultResponse("restore")}

\* The restore transaction's simulate returns; restoreTx.signAndSend() runs
\* sign up to the signTransaction callback.
RestoreSimResponse(resp) ==
  /\ pc = "restore_sim"
  /\ IF resp = Reject
     THEN /\ ret' = Done("simulate", "Rejected")
          /\ pc' = "returned"
          /\ restoreTx' = None
     ELSE IF RestoreTxRestore(restoreTx.options) /\ isSimulationRestore(resp)
     THEN /\ restoreTx' = [restoreTx EXCEPT !.simulation = resp]
          /\ pc' = "restore_account"
          /\ ret' = ret
     ELSE LET t == [restoreTx EXCEPT
                      !.simulation = resp,
                      !.built = IF isSimulationSuccess(resp)
                                THEN AssembleTransaction(restoreTx.built, resp)
                                ELSE restoreTx.built]
              err == SignErr(t, FALSE, t.options.signTransaction)
          IN /\ restoreTx' = SignEnter(t, FALSE, t.options.signTransaction)
             /\ IF err = "ok"
                THEN pc' = "restore_sign" /\ ret' = ret
                ELSE pc' = "returned" /\ ret' = Done("simulate", err)
  /\ got' = None
  /\ ans' = None
  /\ flow' = 0
  /\ UNCHANGED << tx, simRestore, account, call, blob, sent, ledgerSeq, env, restores >>

\* The signTransaction callback answers; restoreTx.send() hands the signed
\* restore transaction to the submission collaborator.
RestoreSigned(ok) ==
  /\ pc = "restore_sign"
  /\ IF ok
     THEN /\ restoreTx' =
               [restoreTx EXCEPT !.signed = SignedFrom(TxToXDR(restoreTx.built))]
          /\ SendErr(restoreTx') = "ok"
          /\ sent' = restoreTx'.signed
          /\ restores' = restores + 1
          /\ pc' = "restore_send"
          /\ ret' = ret
     ELSE /\ ret' = Done("simulate", "SignRejected")
          /\ pc' = "returned"
          /\ restoreTx' = None
          /\ UNCHANGED << sent, restores >>
  /\ got' = None
  /\ ans' = None
  /\ flow' = 0
  /\ UNCHANGED << tx, simRestore, account, call, blob, ledgerSeq, env >>

SendOutcomes == {"SUCCESS", "FAILED", "noResponse", "reject"}

\* A status test that takes any final status for success.
StatusIsFinal(outcome) == outcome \in {"SUCCESS", "FAILED"}

\* result.status === Api.GetTransactionStatus.SUCCESS
StatusIsSuccess(outcome) == outcome = "SUCCESS"

\* The submission ends, and `ans` keeps how; the ledger has applied the
\* restore when its status is SUCCESS.  On that status simulate rebuilds `raw` from the fetched account
\* and calls this.simulate() again; otherwise it fails.
RestoreSent(outcome) ==
  /\ pc = "restore_send"
  /\ restoreTx' = None
  /\ ledgerSeq' = IF outcome = "SUCCESS" THEN ledgerSeq + 1 ELSE ledgerSeq
  /\ IF StatusIsSuccess(outcome)
     THEN /\ tx' = SimulateEnter(
                     [tx EXCEPT !.raw = NewRaw(account + 2, "invoke", None)])
          /\ simRestore' = EffectiveRestore(tx, None)
          /\ pc' = "sim_wait"
          /\ ret' = ret
     ELSE /\ ret' = Done("simulate",
                         IF outcome = "reject" THEN "Rejected"
                         ELSE "RestorationFailure")
          /\ pc' = "returned"
          /\ UNCHANGED << tx, simRestore >>
  /\ got' = None
  /\ ans' = [status |-> outcome]
  /\ flow' = 0
  /\ UNCHANGED << account, call, blob, sent, env, restores >>

\* ------------------------------------------------------------ simulationData
\* An access to the simulationData getter (directly, or through isReadCall or
\* result) by the holder of the instance, also while simulate is suspended on
\* its request.
ReadSimulationData ==
  /\ pc \in {"idle", "sim_wait"}
  /\ got' = [err |-> SimulationDataErr(tx),
             val |-> IF SimulationDataErr(tx) = "ok"
                     THEN SimulationDataVal(tx) ELSE None]
  /\ tx' = SimulationDataAfter(tx)
  /\ ans' = None
  /\ UNCHANGED << restoreTx, pc, simRestore, account, call, ret, blob, sent,
                  ledgerSeq, env, restores, flow >>

\* ---------------------------------------------------------- signAuthEntries
\* The checks applied whatever the authorizeEntry strategy.
AuthErrUnconditional(t, address, signAuthEntry, custom) ==
  IF t.built = None THEN "NotBuilt"
  ELSE IF Len(needsNonInvokerSigningBy(t, FALSE)) = 0
       THEN "NoUnsignedNonInvokerAuthEntries"
  ELSE IF address \notin Range(needsNonInvokerSigningBy(t, FALSE))
       THEN "NoSignatureNeeded"
  ELSE IF ~signAuthEntry THEN "NoSigner"
  ELSE "ok"

\* The checks made when authorizeEntry is the default one (custom = FALSE).
AuthErr(t, address, signAuthEntry, custom) ==
  IF t.built = None THEN "NotBuilt"
  ELSE IF custom THEN "ok"
  ELSE IF Len(needsNonInvokerSigningBy(t, FALSE)) = 0
       THEN "NoUnsignedNonInvokerAuthEntries"
  ELSE IF address \notin Range(needsNonInvokerSigningBy(t, FALSE))
       THEN "NoSignatureNeeded"
  ELSE IF ~signAuthEntry THEN "NoSigner"
  ELSE "ok"

\* A loop test that forgets the address.
AnyAddressEntry(entry, address) == entry.cred = "address"

\* The loop's test: the entry is address-credentialed and belongs to `address`.
AuthMatches(entry, address) ==
  entry.cred = "address" /\ entry.address = address

\* Index of the first entry at or after `from` the loop does not skip; 0 if none.
NextMatch(auth, address, from) ==
  IF \E i \in from..Len(auth) : AuthMatches(auth[i], address)
  THEN CHOOSE i \in from..Len(auth) :
         /\ AuthMatches(auth[i], address)
         /\ \A j \in from..(i - 1) : ~AuthMatches(auth[j], address)
  ELSE 0

\* An authorizeEntry that sets the expiration and leaves the signature empty.
UnsignedEntry(entry, expiration) == [entry EXCEPT !.expiration = expiration]

\* What authorizeEntry resolves to: the entry signed until `expiration`.
AuthorizedEntry(entry, expiration) ==
  [entry EXCEPT !.signature = 1, !.expiration = expiration]

\* `address = this.options.publicKey` when the argument is not given.
AddressArgs == {None, [value |-> GB], [value |-> CC]}
EffectiveAddress(t, address) ==
  IF address = None THEN t.options.publicKey ELSE address.value

\* The entries of `built`, the empty list when nothing is built.
BuiltAuth(t) == IF t.built = None THEN <<>> ELSE t.built.auth

\* The party every unsigned entry belongs to, when there is exactly one and it
\* is an account other than the submitter who holds the instance.
SoleSigner(t) ==
  IF /\ t.built # None
     /\ t.options.publicKey = t.built.source
     /\ Len(needsNonInvokerSigningBy(t, FALSE)) = 1
     /\ Head(needsNonInvokerSigningBy(t, FALSE)) \in Accounts \ {t.built.source}
  THEN Head(needsNonInvokerSigningBy(t, FALSE))
  ELSE NoAddr

\* signAuthEntries, up to the first awaited authorizeEntry.
SignAuthEntries(address, signAuthEntry, custom, expiration) ==
  /\ pc = "idle"
  /\ LET a == EffectiveAddress(tx, address)
         err == AuthErr(tx, a, signAuthEntry, custom)
         i == IF err = "ok" THEN NextMatch(tx.built.auth, a, 1) ELSE 0
     IN /\ call' = [op |-> "signAuthEntries", address |-> a,
                    signAuthEntry |-> signAuthEntry, custom |-> custom,
                    i |-> i, expiration |-> expiration,
                    before |-> BuiltAuth(tx)]
        /\ IF i = 0
           THEN /\ ret' = Done("signAuthEntries", err)
                /\ pc' = "returned"
                /\ flow' = 0
           ELSE /\ pc' = "auth_wait"
                /\ ret' = ret
                /\ flow' = IF flow = 2 /\ a = tx.options.publicKey /\ ~custom
                           THEN 3 ELSE 0
  /\ got' = None
  /\ ans' = None
  /\ UNCHANGED << tx, restoreTx, simRestore, account, blob, sent, ledgerSeq, env, restores >>

AuthResults == {"signed", "unchanged", "fail"}

\* The awaited authorizeEntry settles: on success entry i is replaced and the
\* loop runs on to the next entry of the address, or ends.
AuthorizeEntryDone(result) ==
  /\ pc = "auth_wait"
  /\ result = "unchanged" => call.custom
  /\ IF result = "fail"
     THEN /\ ret' = Done("signAuthEntries", "AuthRejected")
          /\ pc' = "returned"
          /\ call' = call
          /\ tx' = tx
          /\ flow' = 0
     ELSE LET new == IF result = "signed"
                     THEN AuthorizedEntry(tx.built.auth[call.i], call.expiration)
                     ELSE tx.built.auth[call.i]
              auth == [tx.built.auth EXCEPT ![call.i] = new]
              j == NextMatch(auth, call.address, call.i + 1)
          IN /\ tx' = [tx EXCEPT !.built.auth = auth]
             /\ call' = [call EXCEPT !.i = j]
             /\ IF j = 0
                THEN /\ pc' = "returned"
                     /\ ret' = Done("signAuthEntries", "ok")
                     /\ flow' = IF flow = 3 THEN 4 ELSE 0
                ELSE /\ pc' = pc
                     /\ ret' = ret
                     /\ flow' = flow
  /\ got' = None
  /\ ans' = None
  /\ UNCHANGED << restoreTx, simRestore, account, blob, sent, ledgerSeq, env, restores >>

\* ------------------------------------------------------------- sign and send
\* sign({force, signTransaction}) and signAndSend({force, signTransaction}),
\* up to the await of the callback; signAndSend with `signed` present sends.
\* A signAndSend that signs whatever `signed` holds.
NeverSkipsSign(op, t) == FALSE

\* signAndSend: `if (!this.signed) await this.sign(...)` is skipped.
SkipsSign(op, t) == op = "signAndSend" /\ t.signed # None

SignStart(op, force, signTransaction) ==
  /\ pc = "idle"
  /\ op \in {"sign", "signAndSend"}
  /\ LET signer == signTransaction \/ tx.options.signTransaction
         err == SignErr(tx, force, signer)
     IN IF SkipsSign(op, tx)
        THEN /\ sent' = tx.signed
             /\ ret' = Done(op, "ok")
             /\ pc' = "returned"
             /\ call' = [op |-> op, force |-> force, signer |-> signer,
                         xdr |-> NoXDR, networkPassphrase |-> "",
                         signed |-> tx.signed, before |-> BuiltAuth(tx)]
             /\ flow' = 0
             /\ UNCHANGED << tx >>
        ELSE /\ tx' = SignEnter(tx, force, signer)
             /\ sent' = sent
             /\ call' = [op |-> op, force |-> force, signer |-> signer,
                         xdr |-> IF err = "ok" THEN TxToXDR(Refinalize(tx))
                                 ELSE NoXDR,
                         networkPassphrase |->
                           IF err = "ok" THEN tx.options.networkPassphrase
                           ELSE "",
                         signed |-> tx.signed,
                         before |-> BuiltAuth(tx)]
             /\ flow' = IF flow = 6 /\ signer THEN 7 ELSE 0
             /\ IF err = "ok"
                THEN /\ pc' = "sign_wait"
                     /\ ret' = ret
                ELSE /\ ret' = Done(op, err)
                     /\ pc' = "returned"
  /\ got' = None
  /\ ans' = None
  /\ UNCHANGED << restoreTx, simRestore, account, blob, ledgerSeq, env, restores >>

\* The signTransaction callback answers: `signed` is set from what it returns,
\* and signAndSend goes on to send.
SignDone(ok) ==
  /\ pc = "sign_wait"
  /\ pc' = "returned"
  /\ call' = call
  /\ IF ok
     THEN /\ tx' = [tx EXCEPT !.signed = SignedFrom(call.xdr)]
          /\ sent' = IF call.op = "signAndSend" /\ SendErr(tx') = "ok"
                     THEN tx'.signed ELSE sent
          /\ ret' = Done(call.op, IF call.op = "signAndSend"
                                  THEN SendErr(tx') ELSE "ok")
          /\ flow' = IF flow = 7 THEN 8 ELSE 0
     ELSE /\ ret' = Done(call.op, "SignRejected")
          /\ flow' = 0
          /\ UNCHANGED << tx, sent >>
  /\ got' = None
  /\ ans' = None
  /\ UNCHANGED << restoreTx, simRestore, account, blob, ledgerSeq, env, restores >>

\* send()
Send ==
  /\ pc = "idle"
  /\ pc' = "returned"
  /\ ret' = Done("send", SendErr(tx))
  /\ sent' = IF SendErr(tx) = "ok" THEN tx.signed ELSE sent
  /\ got' = None
  /\ ans' = None
  /\ flow' = 0
  /\ UNCHANGED << tx, restoreTx, simRestore, account, call, blob, ledgerSeq, env, restores >>

\* ------------------------------------------------------------------ hand-off
\* toJSON() by the holder of the instance; the blob goes to the next party,
\* the only one to act until it has called fromJSON.
ToJSON ==
  /\ pc = "idle"
  /\ IF SimulationDataErr(tx) = "ok"
     THEN /\ blob' = toJSON(tx)
          /\ tx' = SimulationDataAfter(tx)
          /\ ret' = Done("toJSON", "ok")
          /\ flow' = IF flow = 4 THEN 5
                     ELSE IF SoleSigner(tx) # NoAddr THEN 1 ELSE 0
     ELSE /\ ret' = Done("toJSON", SimulationDataErr(tx))
          /\ flow' = 0
          /\ UNCHANGED << tx, blob >>
  /\ pc' = "returned"
  /\ got' = None
  /\ ans' = None
  /\ UNCHANGED << restoreTx, simRestore, account, call, sent, ledgerSeq, env, restores >>

\* AssembledTransaction.fromJSON(options, blob) by the party that received the
\* blob; from here on the model follows that party's instance.
FromJSON(options) ==
  /\ pc = "handoff"
  /\ "tx" \in DOMAIN blob
  /\ pc' = "returned"
  /\ IF MissingKey(options)
     THEN /\ ret' = Done("fromJSON", "MissingPublicKey")
          /\ UNCHANGED << tx, blob, flow >>
     ELSE IF blob.tx = NoXDR
     THEN /\ ret' = Done("fromJSON", "BadXDR")
          /\ UNCHANGED << tx, blob, flow >>
     ELSE /\ tx' = fromJSON(options, blob)
          /\ blob' = None
          /\ ret' = Done("fromJSON", "ok")
          /\ flow' = IF flow = 1 /\ options.publicKey = SoleSigner(tx) THEN 2
                     ELSE IF flow = 5 /\ options.publicKey = tx.built.source
                     THEN 6 ELSE 0
  /\ call' = [op |-> "fromJSON", options |-> options]
  /\ got' = None
  /\ ans' = None
  /\ UNCHANGED << restoreTx, simRestore, account, sent, ledgerSeq, env, restores >>

\* toXDR() by the holder of the instance: the envelope alone goes to the next
\* party.
ToXDR ==
  /\ pc = "idle"
  /\ pc' = "returned"
  /\ IF tx.built = None
     THEN /\ ret' = Done("toXDR", "NotBuilt")
          /\ blob' = blob
     ELSE /\ ret' = Done("toXDR", "ok")
          /\ blob' = [envelope |-> TxToXDR(tx.built)]
  /\ got' = None
  /\ ans' = None
  /\ flow' = 0
  /\ UNCHANGED << tx, restoreTx, simRestore, account, call, sent, ledgerSeq, env, restores >>

\* fromXDR(options, encodedXDR, spec): the method name is read from the
\* envelope's operation before the constructor runs.
fromXDRErr(options, encodedXDR) ==
  IF TxFromXDR(encodedXDR).op # "invoke" THEN "NoMethod"
  ELSE IF MissingKey(options) THEN "MissingPublicKey"
  ELSE "ok"

fromXDR(options, encodedXDR) ==
  [NewInstance(options) EXCEPT !.built = TxFromXDR(encodedXDR)]

\* AssembledTransaction.fromXDR by the party that received the envelope.
FromXDR(options) ==
  /\ pc = "handoff"
  /\ "envelope" \in DOMAIN blob
  /\ pc' = "returned"
  /\ ret' = Done("fromXDR", fromXDRErr(options, blob.envelope))
  /\ IF fromXDRErr(options, blob.envelope) = "ok"
     THEN /\ tx' = fromXDR(options, blob.envelope)
          /\ blob' = None
     ELSE UNCHANGED << tx, blob >>
  /\ call' = [op |-> "fromXDR", options |-> options]
  /\ got' = None
  /\ ans' = None
  /\ flow' = 0
  /\ UNCHANGED << restoreTx, simRestore, account, sent, ledgerSeq, env, restores >>

\* ------------------------------------------------------------------- queries
Answer(v) == [val |-> v]

\* needsNonInvokerSigningBy: the test of `built`.
NeedsErr(t) == IF t.built = None THEN "NotBuilt" ELSE "ok"

\* tx.needsNonInvokerSigningBy({includeAlreadySigned}) by the holder.
NeedsNonInvokerSigningBy(includeAlreadySigned) ==
  /\ pc = "idle"
  /\ pc' = "returned"
  /\ call' = [op |-> "needsNonInvokerSigningBy",
              includeAlreadySigned |-> includeAlreadySigned,
              before |-> BuiltAuth(tx)]
  /\ ret' = Done("needsNonInvokerSigningBy", NeedsErr(tx))
  /\ ans' = IF NeedsErr(tx) = "ok"
            THEN Answer(needsNonInvokerSigningBy(tx, includeAlreadySigned))
            ELSE None
  /\ got' = None
  /\ UNCHANGED << tx, restoreTx, simRestore, account, blob, sent, ledgerSeq, env, restores, flow >>

\* tx.isReadCall by the holder: it reads simulationData, which memoizes.
IsReadCall ==
  /\ pc = "idle"
  /\ pc' = "returned"
  /\ ret' = Done("isReadCall", SimulationDataErr(tx))
  /\ ans' = IF SimulationDataErr(tx) = "ok" THEN Answer(isReadCall(tx)) ELSE None
  /\ tx' = SimulationDataAfter(tx)
  /\ got' = None
  /\ UNCHANGED << restoreTx, simRestore, account, call, blob, sent, ledgerSeq, env, restores, flow >>

\* Memos a caller adds to the draft; a draft starts without one (0).
Memos == {1, 2}

\* tx.raw.addMemo(memo) by the holder of the instance.
ModifyRaw(memo) ==
  /\ pc = "idle"
  /\ tx.raw # None
  /\ tx.raw.memo # memo
  /\ tx' = [tx EXCEPT !.raw.memo = memo]
  /\ pc' = "returned"
  /\ call' = [op |-> "addMemo", memo |-> memo, before |-> tx.built]
  /\ ret' = Done("addMemo", "ok")
  /\ got' = None
  /\ ans' = None
  /\ flow' = 0
  /\ UNCHANGED << restoreTx, simRestore, account, blob, sent, ledgerSeq, env, restores >>

\* tx.result by the holder, with a decoder that returns or throws; the decoder
\* is called only when simulationData is readable, so its behaviour is drawn
\* only then.
Result(decoder) ==
  /\ pc = "idle"
  /\ SimulationDataErr(tx) # "ok" => decoder = Returns
  /\ pc' = "returned"
  /\ call' = [op |-> "result",
              decoder |-> IF SimulationDataErr(tx) = "ok" THEN decoder ELSE None]
  /\ ans' = getResult(tx, decoder)
  /\ ret' = Done("result", ans'.kind)
  /\ tx' = SimulationDataAfter(tx)
  /\ got' = None
  /\ flow' = 0
  /\ UNCHANGED << restoreTx, simRestore, account, blob, sent, ledgerSeq, env, restores >>

\* The caller takes the outcome of the operation that just ended and goes on:
\* with the instance, with the blob to hand over, or with nothing.
Resume ==
  /\ pc = "returned"
  /\ pc' = IF blob # None THEN "handoff" ELSE IF tx = None THEN "none" ELSE "idle"
  /\ ret' = Done("none", "ok")
  /\ call' = NoCall
  /\ got' = None
  /\ ans' = None
  /\ sent' = None
  /\ restores' = 0
  /\ account' = 0
  /\ simRestore' = FALSE
  /\ flow' = IF flow = 8 THEN 0 ELSE flow
  /\ UNCHANGED << tx, restoreTx, blob, ledgerSeq, env >>

\* ------------------------------------------------------------ specification
\* Steps every specification has: the operations that need no automatic
\* restore.
Lifecycle ==
  \/ \E resp \in MainResponses : SimulateResponse(resp)
  \/ ReadSimulationData
  \/ \E op \in {"sign", "signAndSend"}, f \in BOOLEAN, s \in BOOLEAN :
       SignStart(op, f, s)
  \/ \E ok \in BOOLEAN : SignDone(ok)
  \/ Send
  \/ Resume

\* The multi-party steps: authorization entries and the JSON hand-off.
MultiAuth ==
  \/ \E a \in AddressArgs, s \in BOOLEAN, c \in BOOLEAN, e \in Expirations :
       SignAuthEntries(a, s, c, e)
  \/ \E r \in AuthResults : AuthorizeEntryDone(r)
  \/ ToJSON
  \/ \E o \in Options({NoAddr, GA, GB}, {FALSE}) : FromJSON(o)
  \/ ToXDR
  \/ \E o \in Options({NoAddr, GA, GB}, {FALSE}) : FromXDR(o)
  \/ \E inc \in BOOLEAN : NeedsNonInvokerSigningBy(inc)
  \/ IsReadCall

\* The steps of an automatic footprint restore.
Restore ==
  \/ \E ok \in BOOLEAN : RestoreAccount(ok)
  \/ \E resp \in RestoreResponses : RestoreSimResponse(resp)
  \/ \E ok \in BOOLEAN : RestoreSigned(ok)
  \/ \E o \in SendOutcomes : RestoreSent(o)

\* Callers that never ask for an automatic restore, and hand the call from
\* party to party.
Next ==
  \/ \E o \in Options({NoAddr, GA}, {FALSE}), s \in BOOLEAN : Build(o, s)
  \/ \E ok \in BOOLEAN : BuildAccount(ok)
  \/ \E r \in {None, [value |-> FALSE]} : Simulate(r)
  \/ Lifecycle
  \/ MultiAuth

Spec == Init /\ [][Next]_vars

\* A single party that may ask for the automatic restore, by option or by
\* argument.
NextRestore ==
  \/ \E o \in Options({NoAddr, GA}, BOOLEAN), s \in BOOLEAN : Build(o, s)
  \/ \E ok \in BOOLEAN : BuildAccount(ok)
  \/ \E r \in RestoreArgs : Simulate(r)
  \/ Lifecycle
  \/ Restore

SpecRestore == Init /\ [][NextRestore]_vars

\* errorTypes tables a caller may supply: code -> error descriptor.
ErrorTables ==
  {None, [table |-> <<>>], [table |-> (1 :> "E1")],
   [table |-> (0 :> "E0" @@ 10 :> "E10")]}

OptionsWithErrors ==
  [publicKey : {NoAddr, GA}, restore : {FALSE}, signTransaction : {FALSE},
   networkPassphrase : {Testnet}, errorTypes : ErrorTables]

\* What the server answers to a caller who reads results: any error text.
ResultResponses ==
  {Reject}
  \cup {ErrorResponseOf(text) : text \in Texts}
  \cup {SuccessResponse(contractAuth, r, contractRw) : r \in RetVals}

Decoders ==
  {Returns, Throws(NoToString)} \cup {Throws(ErrorOf("Error", m)) : m \in Texts}

\* The behaviours of the decoder that matter to the call in hand.
DecodersConsulted ==
  IF pc = "idle" /\ SimulationDataErr(tx) = "ok" THEN Decoders ELSE {Returns}

\* A single party that builds a call with an errorTypes table (simulated by
\* build or not) and reads its result.
NextResult ==
  \/ \E o \in OptionsWithErrors, s \in BOOLEAN : Build(o, s)
  \/ \E ok \in BOOLEAN : BuildAccount(ok)
  \/ pc = "sim_wait" /\ \E resp \in ResultResponses : SimulateResponse(resp)
  \/ \E d \in DecodersConsulted : Result(d)
  \/ Resume

SpecResult == Init /\ [][NextResult]_vars

\* A single party that edits the draft between simulations, as the
\* documentation of `raw` suggests.
NextDraft ==
  \/ \E o \in OptionsOn({NoAddr, GA}, {FALSE}, Networks), s \in BOOLEAN :
       Build(o, s)
  \/ \E ok \in BOOLEAN : BuildAccount(ok)
  \/ \E memo \in Memos : ModifyRaw(memo)
  \/ \E r \in {None, [value |-> FALSE]} : Simulate(r)
  \/ Lifecycle

SpecDraft == Init /\ [][NextDraft]_vars

\* ------------------------------------------------------------------ claims
\* C1: when the submitter's call needs exactly <<B>> for an account B other
\* than the submitter, and B signs its entries with signAuthEntries on the
\* copy it got through toJSON/fromJSON, and that copy goes back to the
\* submitter through toJSON/fromJSON (flow = 6), then needsNonInvokerSigningBy
\* on the submitter's copy is empty, a sign with a signTransaction callback
\* passes every check and reaches the callback (flow = 7), and once the
\* callback has answered sign has succeeded and `signed` is set (flow = 8).
C1_MultiAuthWorkflow ==
  /\ flow = 6 => /\ tx.options.publicKey = tx.built.source
                 /\ needsNonInvokerSigningBy(tx, FALSE) = <<>>
  /\ flow = 7 => pc = "sign_wait"
  /\ flow = 8 => /\ ret \in {Done("sign", "ok"), Done("signAndSend", "ok")}
                 /\ tx.signed # None
                 /\ tx.signed.sigs = 1

C1_Witness ==
  /\ flow = 8
  /\ ret = Done("sign", "ok")
  /\ tx.signed # None
  /\ \E i \in 1..Len(tx.built.auth) : tx.built.auth[i].signature = 1

\* C2: round trip.  A step of fromJSON on the blob toJSON made of x yields an
\* instance whose `built` equals x's, whose simulationData is readable and
\* equal to x's (auth entries, return value, transaction data), and which holds
\* no raw simulation response.
C2_RoundTrip ==
  [][(pc = "handoff" /\ ret' = Done("fromJSON", "ok")) =>
       /\ tx'.built = tx.built
       /\ tx'.simulation = None
       /\ SimulationDataErr(tx') = "ok"
       /\ SimulationDataErr(tx) = "ok"
       /\ SimulationDataVal(tx') = SimulationDataVal(tx)]_vars

C2_Witness ==
  /\ pc = "returned"
  /\ ret = Done("fromJSON", "ok")
  /\ tx.simulation = None
  /\ Len(tx.simulationResult.auth) > 0
  /\ tx.simulationResult.retval # ScvVoid
  /\ \E i \in 1..Len(tx.built.auth) : tx.built.auth[i].signature = 1

\* An unsigned address-credentialed entry of `auth` owned by a non-contract
\* address.
Blocked(auth) ==
  \E i \in 1..Len(auth) :
    /\ auth[i].cred = "address"
    /\ auth[i].signature = 0
    /\ ~(Len(auth[i].address) > 0 /\ Head(auth[i].address) = "C")

\* The sign call the state is in or has just left ran sign's checks (it is
\* not a signAndSend that found `signed` present and only sent).
SignRan ==
  /\ call.op \in {"sign", "signAndSend"}
  /\ \/ pc = "sign_wait"
     \/ pc = "returned" /\ (ret.err # "ok" \/ call.xdr # NoXDR)

\* C3 (as amended): sign reaches the signTransaction callback, and so sets
\* `signed`, only if no non-contract address owns an unsigned
\* address-credentialed entry of `built`.  If one does, sign fails without
\* reaching the callback, and the failure is NeedsMoreSignatures whenever the
\* checks made before it pass: a signTransaction callback is available and,
\* unless force is set, simulationData is readable and the call is not a read
\* call.  NeedsMoreSignatures is raised only for such an entry: entries owned
\* by contract addresses never block sign.
C3_SignGate ==
  SignRan =>
    /\ (pc = "sign_wait" \/ ret.err \in {"ok", "SignRejected"})
         => ~Blocked(call.before)
    /\ (Blocked(call.before) /\ call.signer
          /\ (call.force \/ (SimulationDataErr(tx) = "ok" /\ ~isReadCall(tx))))
         => (pc = "returned" /\ ret.err = "NeedsMoreSignatures")
    /\ (pc = "returned" /\ ret.err = "NeedsMoreSignatures")
         => Blocked(call.before)

C3_Witness ==
  /\ pc = "returned"
  /\ ret = Done("sign", "NeedsMoreSignatures")
  /\ Blocked(call.before)
  /\ tx.signed = None

\* C3 as stated: whenever such an entry exists, sign fails with
\* NeedsMoreSignatures.
C3_Original ==
  (SignRan /\ pc = "returned" /\ Blocked(call.before))
    => ret.err = "NeedsMoreSignatures"

\* C4 as stated: one top-level simulate submits at most one restore
\* transaction; a restore-required re-simulation is not restored again.
C4_SingleRestore == restores <= 1

\* C5: while a re-simulation is in flight the restore transaction has been
\* built, signed and submitted and the ledger has applied it (status SUCCESS);
\* and when the re-simulation answers with a Success response, simulate
\* returns with simulationData readable and equal to that response's data.
C5_RestoreThenResimulate ==
  /\ (pc = "sim_wait" /\ restores > 0) =>
       /\ sent # None
       /\ sent.op = "restore"
       /\ sent.sigs = 1
       /\ sent.source = tx.options.publicKey
       /\ ledgerSeq = account + 1
  /\ (pc = "returned" /\ ret = Done("simulate", "ok") /\ restores > 0
        /\ tx.simulation.kind = "success") =>
       /\ SimulationDataErr(tx) = "ok"
       /\ SimulationDataVal(tx) =
            [result |-> [auth |-> tx.simulation.auth,
                         retval |-> tx.simulation.retval],
             transactionData |-> tx.simulation.data]

C5_Witness ==
  /\ pc = "returned"
  /\ ret = Done("simulate", "ok")
  /\ restores = 1
  /\ tx.simulation.kind = "success"
  /\ SimulationDataErr(tx) = "ok"

\* C6: an access to simulationData returns the cache if it is populated;
\* otherwise it fails with NotYetSimulated when there is no raw simulation,
\* with SimulationFailed when the raw response is an error, with ExpiredState
\* when it is restore-required, and otherwise derives the data and memoizes
\* it.  After a simulate with restore disabled that got a restore-required
\* response, no restore transaction was submitted and, the cache being empty,
\* the access fails with ExpiredState.  A response without a result (the
\* restore transaction's) is memoized as empty auth and a void return value.
C6_Outcome ==
  /\ [][got' # None =>
          IF tx.simulationResult # None /\ tx.simulationTransactionData # None
          THEN /\ got' = [err |-> "ok",
                          val |-> [result |-> tx.simulationResult,
                                   transactionData |-> tx.simulationTransactionData]]
               /\ tx' = tx
          ELSE IF tx.simulation = None
          THEN got'.err = "NotYetSimulated" /\ tx' = tx
          ELSE IF tx.simulation.kind = "error"
          THEN got'.err = "SimulationFailed" /\ tx' = tx
          ELSE IF tx.simulation.kind = "restore"
          THEN got'.err = "ExpiredState" /\ tx' = tx
          ELSE /\ got' = [err |-> "ok",
                          val |-> [result |-> [auth |-> tx.simulation.auth,
                                               retval |-> tx.simulation.retval],
                                   transactionData |-> tx.simulation.data]]
               /\ tx' = [tx EXCEPT !.simulationResult = got'.val.result,
                                   !.simulationTransactionData =
                                      got'.val.transactionData]]_vars
  /\ []((pc = "returned" /\ ret = Done("simulate", "ok")
          /\ call.op \in {"simulate", "build"} /\ ~call.restore
          /\ tx.simulation.kind = "restore") =>
        /\ restores = 0
        /\ sent = None
        /\ (tx.simulationResult = None => SimulationDataErr(tx) = "ExpiredState"))
  /\ [](pc = "restore_sign" =>
        /\ ~restoreTx.simulation.hasResult
        /\ restoreTx.simulationResult = [auth |-> <<>>, retval |-> ScvVoid]
        /\ restoreTx.simulationTransactionData = restoreTx.simulation.data)

C6_Witness ==
  /\ pc = "idle"
  /\ got # None
  /\ got.err = "ExpiredState"
  /\ tx.simulation.kind = "restore"
  /\ ~tx.options.restore

\* The places where a simulate call is suspended.
SimulatePcs ==
  {"sim_wait", "restore_account", "restore_sim", "restore_sign", "restore_send"}

\* C7: an access to simulationData changes none of `built`, `simulation` and
\* `signed`; two accesses in a row return the same; and no step on the
\* instance other than a step of simulate changes what a readable
\* simulationData returns (fromXDR makes a new instance of the envelope alone).
C7_Idempotent ==
  [][/\ got' # None =>
          /\ tx'.built = tx.built
          /\ tx'.simulation = tx.simulation
          /\ tx'.signed = tx.signed
     /\ (got # None /\ got' # None) => got' = got
     /\ (/\ pc \in {"idle", "handoff", "auth_wait", "sign_wait", "returned"}
         /\ pc' \notin SimulatePcs
         /\ ret'.op # "fromXDR"
         /\ tx # None
         /\ SimulationDataErr(tx) = "ok")
        => /\ SimulationDataErr(tx') = "ok"
           /\ SimulationDataVal(tx') = SimulationDataVal(tx)]_vars

C7_Witness ==
  /\ pc = "idle"
  /\ got # None
  /\ got.err = "ok"
  /\ tx.simulation # None
  /\ got.val.result.retval = tx.simulation.retval
  /\ tx.simulationResult = got.val.result

\* C8: during and after a signAuthEntries call, also one that failed part-way,
\* `built` has as many entries as before the call, and every entry that is not
\* address-credentialed or whose address is not the target is the one it was.
C8_Frame ==
  (call.op = "signAuthEntries" /\ tx.built # None) =>
    /\ Len(tx.built.auth) = Len(call.before)
    /\ \A i \in 1..Len(call.before) :
         (call.before[i].cred # "address" \/ call.before[i].address # call.address)
           => tx.built.auth[i] = call.before[i]

C8_Witness ==
  /\ pc = "returned"
  /\ ret = Done("signAuthEntries", "ok")
  /\ \E i \in 1..Len(call.before) : tx.built.auth[i] # call.before[i]
  /\ \E i \in 1..Len(call.before) :
       /\ call.before[i].cred = "address"
       /\ call.before[i].address # call.address
       /\ tx.built.auth[i] = call.before[i]

\* Addresses with an unsigned address-credentialed entry before the call.
NeededBefore ==
  {call.before[i].address :
     i \in {j \in 1..Len(call.before) :
              call.before[j].cred = "address" /\ call.before[j].signature = 0}}

\* The three errors of signAuthEntries' checks.
CheckErrors == {"NoUnsignedNonInvokerAuthEntries", "NoSignatureNeeded", "NoSigner"}

\* C9: with the default authorizeEntry, signAuthEntries on a built transaction
\* fails with NoUnsignedNonInvokerAuthEntries if nobody needs to sign, else
\* with NoSignatureNeeded if the target address is not among those who do,
\* else with NoSigner if there is no signAuthEntry callback, and else with
\* none of the three; with a custom authorizeEntry it fails with none of them.
C9_Checks ==
  (/\ call.op = "signAuthEntries"
   /\ pc \in {"auth_wait", "returned"}
   /\ tx.built # None) =>
    LET failed(e) == pc = "returned" /\ ret.err = e
    IN IF call.custom THEN ~(pc = "returned" /\ ret.err \in CheckErrors)
       ELSE IF NeededBefore = {} THEN failed("NoUnsignedNonInvokerAuthEntries")
       ELSE IF call.address \notin NeededBefore THEN failed("NoSignatureNeeded")
       ELSE IF ~call.signAuthEntry THEN failed("NoSigner")
       ELSE ~(pc = "returned" /\ ret.err \in CheckErrors)

C9_Witness ==
  /\ pc = "returned"
  /\ ret = Done("signAuthEntries", "NoSigner")
  /\ ~call.custom
  /\ call.address \in NeededBefore

\* C10 (as amended): needsNonInvokerSigningBy returns, without duplicates,
\* exactly the addresses of the address-credentialed entries of `built` (those
\* with an empty signature slot, or all of them with includeAlreadySigned).
\* Entries with source-account credentials contribute nothing, and
\* options.publicKey plays no part.
C10_AddressEntriesOnly ==
  (tx # None /\ tx.built # None) =>
    \A inc \in BOOLEAN :
      LET needs == needsNonInvokerSigningBy(tx, inc)
      IN /\ Range(needs) =
              {tx.built.auth[i].address :
                 i \in {j \in 1..Len(tx.built.auth) :
                          /\ tx.built.auth[j].cred = "address"
                          /\ (inc \/ tx.built.auth[j].signature = 0)}}
         /\ Cardinality(Range(needs)) = Len(needs)
         /\ NoAddr \notin Range(needs)

C10_Witness ==
  /\ pc = "idle"
  /\ tx.built # None
  /\ tx.options.publicKey \in Range(needsNonInvokerSigningBy(tx, FALSE))
  /\ \E i \in 1..Len(tx.built.auth) : tx.built.auth[i].cred = "sourceAccount"

\* C10 as stated: the holder's own identity (options.publicKey) is never in
\* the result.
C10_Original ==
  (tx # None /\ tx.built # None) =>
    \A inc \in BOOLEAN :
      tx.options.publicKey \notin Range(needsNonInvokerSigningBy(tx, inc))

\* The needsNonInvokerSigningBy call that just returned.
NeedsRan == pc = "returned" /\ ret.op = "needsNonInvokerSigningBy"

\* Addresses of the address-credentialed entries of the operation of `built`,
\* all of them or only those with an empty signature slot.
AddressesToSign(auth, includeAlreadySigned) ==
  {auth[i].address : i \in {j \in 1..Len(auth) :
      /\ auth[j].cred = "address"
      /\ (includeAlreadySigned \/ auth[j].signature = 0)}}

NoDuplicates(s) == \A i, j \in 1..Len(s) : s[i] = s[j] => i = j

\* C11: needsNonInvokerSigningBy fails exactly when `built` is absent, and
\* otherwise returns a list without duplicates whose elements are exactly the
\* addresses of the entries of the operation of `built` that have address
\* credentials and, unless includeAlreadySigned, an empty signature slot.
C11_NeedsExactly ==
  NeedsRan =>
    /\ (ret.err = "NotBuilt") = (tx.built = None)
    /\ ret.err \in {"NotBuilt", "ok"}
    /\ ret.err = "NotBuilt" => ans = None
    /\ ret.err = "ok" =>
         /\ ans # None
         /\ NoDuplicates(ans.val)
         /\ Range(ans.val) =
              AddressesToSign(tx.built.auth, call.includeAlreadySigned)

\* Two entries of the same address, one of them signed, and a source-account
\* or signed entry left out of the answer.
C11_Witness ==
  /\ NeedsRan
  /\ ret.err = "ok"
  /\ Len(tx.built.auth) = 2
  /\ tx.built.auth[1].address = tx.built.auth[2].address
  /\ tx.built.auth[1].cred = "address"
  /\ call.includeAlreadySigned
  /\ Len(ans.val) = 1

C11_WitnessAbsent == NeedsRan /\ ret.err = "NotBuilt"

\* C12: whenever `built` is present, every address listed without
\* includeAlreadySigned is listed with it; this is so in every state reached
\* through signAuthEntries calls, and for the list a call just returned.
C12_Superset ==
  /\ (tx # None /\ tx.built # None) =>
       Range(needsNonInvokerSigningBy(tx, FALSE))
         \subseteq Range(needsNonInvokerSigningBy(tx, TRUE))
  /\ (NeedsRan /\ ret.err = "ok") =>
       IF call.includeAlreadySigned
       THEN Range(needsNonInvokerSigningBy(tx, FALSE)) \subseteq Range(ans.val)
       ELSE Range(ans.val) \subseteq Range(needsNonInvokerSigningBy(tx, TRUE))

\* After signAuthEntries signed the entry of one party while another's is
\* still unsigned, the list with includeAlreadySigned is strictly larger.
C12_Witness ==
  /\ NeedsRan
  /\ ret.err = "ok"
  /\ call.includeAlreadySigned
  /\ \E i \in 1..Len(tx.built.auth) : tx.built.auth[i].signature # 0
  /\ needsNonInvokerSigningBy(tx, FALSE) # <<>>
  /\ Range(needsNonInvokerSigningBy(tx, FALSE)) # Range(ans.val)

\* The simulation of the call in hand reports no authorization entries and an
\* empty read-write footprint.
ReportsRead(t) ==
  /\ t # None
  /\ t.built # None
  /\ SimulationDataErr(t) = "ok"
  /\ SimulationDataVal(t).result.auth = <<>>
  /\ SimulationDataVal(t).transactionData.rw = 0

\* A step that enters sign (directly, or through signAndSend with no envelope
\* signed yet).
SignEntered ==
  /\ pc = "idle"
  /\ pc' \in {"returned", "sign_wait"}
  /\ call'.op \in {"sign", "signAndSend"}
  /\ call'.op = "signAndSend" => tx.signed = None

\* C13: on a call whose simulation reports no authorization entries and an
\* empty read-write footprint, sign without force fails with
\* NoSignatureNeeded, the signing callback is not invoked and `signed` stays
\* as it was (absent); with force the outcome is never NoSignatureNeeded: the
\* callback is invoked, or a later check (NoSigner, NeedsMoreSignatures) fails.
C13_ReadCallSign ==
  [][(SignEntered /\ ReportsRead(tx)) =>
       /\ ~call'.force =>
            /\ pc' = "returned"
            /\ ret' = Done(call'.op, "NoSignatureNeeded")
            /\ call'.xdr = NoXDR
            /\ tx'.signed = tx.signed
            /\ sent' = sent
       /\ call'.force =>
            \/ pc' = "sign_wait" /\ call'.signer
            \/ /\ pc' = "returned"
               /\ ret'.err \in {"NoSigner", "NeedsMoreSignatures"}]_vars

C13_Witness ==
  /\ pc = "returned"
  /\ ret = Done("sign", "NoSignatureNeeded")
  /\ ~call.force
  /\ call.signer
  /\ ReportsRead(tx)
  /\ tx.signed = None

C13_WitnessForce ==
  /\ pc = "sign_wait"
  /\ call.force
  /\ ReportsRead(tx)

\* C14: an envelope reaches the submission collaborator only as the `signed`
\* field of the instance that sends it (the call in hand or the restore
\* transaction); `signed` is only ever set by the step in which the signing
\* callback of a sign on that instance answers; and send on an instance
\* without `signed` fails with NotSigned and submits nothing.
C14_SendNeedsSign ==
  /\ [][(sent' # sent /\ sent' # None) =>
          \/ tx' # None /\ sent' = tx'.signed
          \/ restoreTx' # None /\ sent' = restoreTx'.signed]_vars
  /\ [][(tx' # None /\ tx'.signed # None /\ (tx = None \/ tx'.signed # tx.signed))
          => pc = "sign_wait" /\ call.op \in {"sign", "signAndSend"}]_vars
  /\ [][(restoreTx' # None /\ restoreTx'.signed # None
            /\ (restoreTx = None \/ restoreTx'.signed # restoreTx.signed))
          => pc = "restore_sign"]_vars
  /\ [][(pc = "idle" /\ ret'.op = "send" /\ tx.signed = None) =>
          ret'.err = "NotSigned" /\ sent' = sent]_vars

\* send on an instance never signed, refused.
C14_Witness ==
  /\ pc = "returned"
  /\ ret = Done("send", "NotSigned")
  /\ tx.built # None
  /\ tx.signed = None
  /\ sent = None

\* The restore transaction, signed and then submitted.
C14_WitnessRestore ==
  /\ pc = "restore_send"
  /\ sent # None
  /\ sent = restoreTx.signed

\* A step that calls build, fromJSON or fromXDR.
Constructs ==
  /\ pc \in {"none", "handoff"}
  /\ call'.op \in {"build", "fromJSON", "fromXDR"}

\* Positions at which a network operation of the call is outstanding.
NetworkPcs ==
  {"build_account", "sim_wait", "restore_account", "restore_sim",
   "restore_sign", "restore_send", "sign_wait", "auth_wait"}

C15_WitnessFromJSON ==
  /\ pc = "returned"
  /\ ret = Done("fromJSON", "MissingPublicKey")
  /\ blob # None

C15_WitnessFromXDR ==
  /\ pc = "returned"
  /\ ret = Done("fromXDR", "MissingPublicKey")
  /\ blob # None

\* What simulationData says of the call: no authorization entries and no
\* read-write footprint entries.
ReadShape(t) ==
  /\ Len(SimulationDataVal(t).result.auth) = 0
  /\ SimulationDataVal(t).transactionData.rw = 0

\* C16: isReadCall answers TRUE exactly when simulationData reports zero
\* authorization entries and zero read-write footprint entries (and fails as
\* simulationData fails), whatever made the instance; the call rebuilt by
\* fromJSON has the read shape of the call that was serialized; and the steps
\* of signAuthEntries leave simulationData's read shape as it was.
C16_IsReadCallPure ==
  /\ []((pc = "returned" /\ ret.op = "isReadCall") =>
          /\ ret.err = SimulationDataErr(tx)
          /\ ret.err # "ok" => ans = None
          /\ ret.err = "ok" => ans = Answer(ReadShape(tx)))
  /\ [][(pc = "handoff" /\ ret' = Done("fromJSON", "ok")) =>
          /\ SimulationDataErr(tx') = "ok"
          /\ ReadShape(tx') = ReadShape(tx)
          /\ SimulationDataVal(tx') = SimulationDataVal(tx)]_vars
  /\ [][(call'.op = "signAuthEntries" /\ pc \in {"idle", "auth_wait"}
            /\ SimulationDataErr(tx) = "ok") =>
          /\ SimulationDataErr(tx') = "ok"
          /\ ReadShape(tx') = ReadShape(tx)]_vars

\* A read call rebuilt by fromJSON (no raw response) answers TRUE.
C16_Witness ==
  /\ pc = "returned"
  /\ ret = Done("isReadCall", "ok")
  /\ tx.simulation = None
  /\ ans = Answer(TRUE)

\* After signAuthEntries signed an entry, the call still answers FALSE.
C16_WitnessSigned ==
  /\ pc = "returned"
  /\ ret = Done("isReadCall", "ok")
  /\ ans = Answer(FALSE)
  /\ \E i \in 1..Len(tx.built.auth) : tx.built.auth[i].signature # 0

\* The access to `result` that just ended, the failure its `try` block raised
\* (None if it raised none) and the text parseError was given.
ResultRan == pc = "returned" /\ ret.op = "result"
Raised == ResultFailure(tx, call.decoder)
RaisedText ==
  IF Raised # None /\ Raised.hasToString
  THEN <<"Error: ">> \o Raised.message ELSE <<>>

\* The text carries the contract-error pattern and the code it carries has an
\* entry in the errorTypes table of the call.
CodeInTable ==
  /\ tx.options.errorTypes # None
  /\ ContractErrorMatch(RaisedText) # <<>>
  /\ ParseInt(ContractErrorMatch(RaisedText)) \in DOMAIN tx.options.errorTypes.table

\* C17: when reading simulationData or decoding the return value fails,
\* `result` returns an Err exactly when the failure has a toString, an
\* errorTypes table was supplied, the text matches the contract-error
\* pattern and the code extracted has an entry in the table, and the Err is
\* made of that entry; in every other case the failure raised is the failure
\* the caller gets.  Without a failure the decoded value is returned.
C17_TypedErr ==
  ResultRan =>
    /\ Raised = None =>
         ans = [kind |-> "value", val |-> Native(SimulationDataVal(tx).result.retval)]
    /\ Raised # None =>
         /\ (ans.kind = "Err") = (Raised.hasToString /\ CodeInTable)
         /\ ans.kind = "Err" =>
              ans.val = Err(tx.options.errorTypes.table[
                              ParseInt(ContractErrorMatch(RaisedText))])
         /\ ans.kind # "Err" => ans = [kind |-> "throw", failure |-> Raised]

\* A simulation that failed with contract error #10, read as the Err of
\* entry 10 of the table.
C17_Witness ==
  /\ ResultRan
  /\ tx.simulation # None
  /\ tx.simulation.kind = "error"
  /\ tx.simulation.error = <<ContractPrefix, "1", "0", ")">>
  /\ ans = [kind |-> "Err", val |-> Err("E10")]

\* A code without an entry, a text without the pattern, no table, and a
\* thrown value without toString: all propagated.
C17_WitnessUnknownCode ==
  /\ ResultRan
  /\ ans.kind = "throw"
  /\ tx.options.errorTypes # None
  /\ tx.options.errorTypes.table # <<>>
  /\ ContractErrorMatch(RaisedText) # <<>>

C17_WitnessNoTable ==
  /\ ResultRan
  /\ ans.kind = "throw"
  /\ tx.options.errorTypes = None
  /\ ContractErrorMatch(RaisedText) # <<>>

C17_WitnessNoToString ==
  /\ ResultRan
  /\ ans = [kind |-> "throw", failure |-> NoToString]

C17_WitnessDecoderErr ==
  /\ ResultRan
  /\ ans.kind = "Err"
  /\ call.decoder # None
  /\ call.decoder.throws

\* C18: while the simulation that follows a successful footprint restore is
\* outstanding, the transaction that was sent to it (`built`) is the
\* finalization of the draft rebuilt after the restore: it carries the
\* draft's bumped sequence number.
C18_ResimulatesRebuilt ==
  (pc = "sim_wait" /\ restores > 0) =>
    /\ tx.built.seq = tx.raw.seq
    /\ tx.built = RawBuild(tx)

\* C19: an edit of `raw` leaves `built` as it is, and when a simulate called
\* after the edit has returned with a usable simulation, `built` is the
\* finalization of the edited `raw`: it carries the memo of `raw`.
C19_BuiltFollowsRaw ==
  /\ (pc = "returned" /\ ret.op = "addMemo") => tx.built = call.before
  /\ (pc = "returned" /\ ret = Done("simulate", "ok") /\ tx.raw # None
        /\ isSimulationSuccess(tx.simulation)) =>
       tx.built.memo = tx.raw.memo

\* The half that holds: the edit alone never changes `built`.
C19_EditLeavesBuilt ==
  (pc = "returned" /\ ret.op = "addMemo") => tx.built = call.before

\* An edit made before the first simulation is finalized by it.
C19_WitnessFirst ==
  /\ pc = "returned"
  /\ ret = Done("simulate", "ok")
  /\ tx.raw.memo # 0
  /\ tx.built.memo = tx.raw.memo

\* A simulate call that has ended with its request rejected, or answered
\* with an Error-shaped response.
SimulateRejected ==
  pc = "returned" /\ call.op = "simulate" /\ ret = Done("simulate", "Rejected")
SimulateAnsweredError ==
  /\ pc = "returned"
  /\ call.op = "simulate"
  /\ ret = Done("simulate", "ok")
  /\ isSimulationError(tx.simulation)

\* C20: after a simulate whose request was rejected or answered with an
\* Error-shaped response, `built` is what it was when the request was issued;
\* after a rejected one, simulationData gives exactly what it gave before the
\* call.
C20_NoPartialApply ==
  /\ (SimulateRejected \/ SimulateAnsweredError) => tx.built = call.built
  /\ SimulateRejected => SimulationDataRead(tx) = call.before

\* The half that holds: `built` is kept.
C20_BuiltKept ==
  (SimulateRejected \/ SimulateAnsweredError) => tx.built = call.built

\* The case of a call that has no raw response (made by fromJSON, or never
\* simulated): simulationData after a rejected simulate as before it.
C20_DeserializedKept ==
  (SimulateRejected /\ tx.simulation = None) =>
    SimulationDataRead(tx) = call.before

\* The read-call check of the sign call passed: force was set, or
\* simulationData is readable and reports entries or a write footprint.
PastReadCheck ==
  /\ tx.built # None
  /\ call.force \/ (SimulationDataErr(tx) = "ok" /\ ~ReadShape(tx))

\* C21 (as amended): sign checks, in this order, `built` present, the read
\* call (unless force), a signTransaction callback, and only then the
\* signatures still needed.  So a non-read call without a callback fails with
\* NoSigner whether or not an entry of a non-contract address is unsigned,
\* and NeedsMoreSignatures is the failure only when a callback is available.
C21_CheckOrder ==
  (SignRan /\ pc = "returned") =>
    /\ tx.built = None => ret.err = "NotBuilt"
    /\ (tx.built # None /\ ~call.force /\ SimulationDataErr(tx) # "ok")
         => ret.err = SimulationDataErr(tx)
    /\ (tx.built # None /\ ~call.force /\ SimulationDataErr(tx) = "ok"
          /\ ReadShape(tx)) => ret.err = "NoSignatureNeeded"
    /\ (PastReadCheck /\ ~call.signer) => ret.err = "NoSigner"
    /\ (PastReadCheck /\ call.signer /\ Blocked(call.before))
         => ret.err = "NeedsMoreSignatures"

\* A non-read call with an unsigned entry of an account, signed without a
\* callback: NoSigner.
C21_Witness ==
  /\ SignRan
  /\ pc = "returned"
  /\ ret = Done("sign", "NoSigner")
  /\ ~call.force
  /\ ~call.signer
  /\ SimulationDataErr(tx) = "ok"
  /\ ~ReadShape(tx)
  /\ Blocked(call.before)

\* C21 as stated: NeedsMoreSignatures is checked before NoSigner.
C21_Original ==
  (SignRan /\ pc = "returned" /\ PastReadCheck /\ Blocked(call.before)
     /\ ~call.signer)
    => ret.err = "NeedsMoreSignatures"

\* C22: while sign is suspended on the signing callback, `built` is already
\* the re-finalized transaction (time bounds reset, no signatures, resource
\* data as simulationData gives it, the entries as they were), the callback
\* was given the encoding of that `built` and the network passphrase of the
\* options, and `signed` is still what it was before the call; when the
\* callback has failed `signed` is still that; when it has answered `signed`
\* is the decoding of its answer to that encoding.
C22_RefinalizeThenSign ==
  /\ pc = "sign_wait" =>
       /\ tx.built.tb = 1
       /\ tx.built.sigs = 0
       /\ tx.built.data = SimulationDataVal(tx).transactionData
       /\ tx.built.auth = call.before
       /\ call.xdr = TxToXDR(tx.built)
       /\ call.networkPassphrase = tx.options.networkPassphrase
       /\ tx.signed = call.signed
  /\ (SignRan /\ pc = "returned" /\ ret.err # "ok") => tx.signed = call.signed
  /\ (SignRan /\ pc = "returned" /\ ret.err = "ok") =>
       /\ call.xdr = TxToXDR(tx.built)
       /\ tx.signed = [tx.built EXCEPT !.sigs = 1]

\* A sign that completed on the public network after the resource data of
\* `built` had to be replaced by simulationData's.
C22_Witness ==
  /\ SignRan
  /\ pc = "returned"
  /\ ret = Done("sign", "ok")
  /\ call.networkPassphrase = "Public Global Stellar Network"
  /\ tx.signed # None
  /\ tx.signed.tb = 1

\* The callback failed on a re-sign: the earlier envelope is kept.
C22_WitnessRejected ==
  /\ pc = "returned"
  /\ ret = Done("sign", "SignRejected")
  /\ tx.signed # None
  /\ tx.signed = call.signed

\* The submission of the restore transaction has just ended without the
\* status SUCCESS: with the status FAILED, or without a transaction response.
RestoreNotApplied ==
  /\ ans # None
  /\ "status" \in DOMAIN ans
  /\ ans.status \in {"FAILED", "noResponse"}

C24_WitnessNoNesting ==
  /\ pc = "returned"
  /\ restoreTx # None
  /\ restoreTx.options.restore
  /\ restoreTx.simulation # None
  /\ restoreTx.simulation.kind = "restore"
  /\ ret.op = "simulate"
  /\ ret.err = "ExpiredState"
  /\ restores = 0

\* C25: signAndSend invokes sign exactly when `signed` is absent, and then
\* sends.  With `signed` present it returns in one step, without reaching the
\* signing callback and without touching the instance, and the envelope
\* handed to the submission collaborator is the existing `signed`.  With
\* `signed` absent sign runs: a failure of its checks or of the callback
\* leaves what was sent as it was, and after the callback answered the
\* envelope sent is the one just signed.
C25_SignAndSend ==
  /\ [][(pc = "idle" /\ tx.signed # None) =>
          /\ ~(pc' = "sign_wait" /\ call'.op = "signAndSend")
          /\ (pc' = "returned" /\ ret'.op = "signAndSend") =>
                /\ ret'.err = "ok"
                /\ sent' = tx.signed
                /\ tx' = tx]_vars
  /\ [][(pc = "idle" /\ tx.signed = None /\ pc' = "returned"
           /\ ret'.op = "signAndSend") =>
          /\ ret'.err = SignErr(tx, call'.force, call'.signer)
          /\ ret'.err \notin {"ok", "NotSigned"}
          /\ sent' = sent
          /\ tx'.signed = None]_vars
  /\ [][(pc = "sign_wait" /\ call.op = "signAndSend") =>
          /\ pc' = "returned"
          /\ ret'.op = "signAndSend"
          /\ IF ret'.err = "ok"
             THEN /\ tx'.signed = [TxFromXDR(call.xdr) EXCEPT !.sigs = 1]
                  /\ sent' = tx'.signed
             ELSE /\ sent' = sent
                  /\ tx'.signed = None]_vars
  /\ []((pc = "sign_wait" /\ call.op = "signAndSend") =>
          call.signed = None /\ tx.signed = None)

\* signAndSend on an instance that was already signed: the existing envelope
\* was sent and sign was not entered.
C25_Witness ==
  /\ pc = "returned"
  /\ ret = Done("signAndSend", "ok")
  /\ call.op = "signAndSend"
  /\ call.signed # None
  /\ call.xdr = NoXDR
  /\ sent = call.signed
  /\ tx.signed = call.signed

\* signAndSend on an unsigned instance: signed, then sent.
C25_WitnessSigned ==
  /\ pc = "returned"
  /\ ret = Done("signAndSend", "ok")
  /\ call.op = "signAndSend"
  /\ call.signed = None
  /\ sent = tx.signed
  /\ sent # None

\* signAndSend whose callback rejected: nothing was sent.
C25_WitnessFailed ==
  /\ pc = "returned"
  /\ ret = Done("signAndSend", "SignRejected")
  /\ tx.signed = None
  /\ sent = None

\* C26: an envelope handed to the submission collaborator by send or
\* signAndSend was signed from the current `built`: it is `built` with the
\* signature added, so it was not signed before a later simulate or
\* signAuthEntries changed `built`.
C26_SentFromCurrentBuilt ==
  (pc = "returned" /\ ret.op \in {"send", "signAndSend"} /\ ret.err = "ok") =>
    /\ sent = tx.signed
    /\ sent = [tx.built EXCEPT !.sigs = 1]

\* C27: once a simulate call has completed with a Success response,
\* simulationData returns the data of that response, whatever was read while
\* the call was suspended on its request.
C27_DataOfLatestResponse ==
  (/\ pc = "returned"
   /\ ret = Done("simulate", "ok")
   /\ tx.simulation # None
   /\ tx.simulation.kind = "success") =>
    /\ SimulationDataErr(tx) = "ok"
    /\ SimulationDataVal(tx).result = DeriveResult(tx.simulation)
    /\ SimulationDataVal(tx).transactionData = tx.simulation.data

\* The fields of an instance that hold simulation data or a signed envelope
\* are only present together with `built`.
BuiltUnderlies(t) ==
  /\ t.simulation # None => t.built # None
  /\ t.simulationResult # None => t.built # None
  /\ t.simulationTransactionData # None => t.built # None
  /\ t.signed # None => t.built # None

\* C28: in every reachable state, on the call's instance and on the restore
\* transaction's, a raw simulation response, cached simulation data or
\* `signed` is present only if `built` is; and a blob emitted by toJSON
\* carries a `tx` envelope, that of `built`, next to its simulation data.
C28_BuiltUnderlies ==
  /\ tx # None => BuiltUnderlies(tx)
  /\ restoreTx # None => BuiltUnderlies(restoreTx)
  /\ (blob # None /\ "simulationResult" \in DOMAIN blob) =>
        /\ blob.tx # NoXDR
        /\ (pc = "returned" /\ ret = Done("toJSON", "ok")) =>
              blob.tx = TxToXDR(tx.built)

\* toJSON has emitted a blob of an instance with simulation data.
C28_Witness ==
  /\ pc = "returned"
  /\ ret = Done("toJSON", "ok")
  /\ blob # None
  /\ blob.tx = TxToXDR(tx.built)
  /\ tx.simulation # None
  /\ SimulationDataCached(tx)

\* An instance with cached simulation data and no raw response (after
\* fromJSON), signed: `built` is present.
C28_WitnessDeserialized ==
  /\ tx # None
  /\ tx.simulation = None
  /\ SimulationDataCached(tx)
  /\ tx.signed # None
  /\ tx.built # None

====
